---- MODULE Spec2Model ----
(***************************************************************************)
(* Model of the OpenTSDB write path of vminsert:                           *)
(*   - package opentsdbhttp: the JSON row parser (Rows, Row.unmarshal,     *)
(*     unmarshalRows, unmarshalTags) and the request pipeline              *)
(*     (InsertHandler, insertHandlerInternal, pushCtx.Read, InsertRows,    *)
(*     getPushCtx, putPushCtx);                                            *)
(*   - package opentsdb: the telnet "put" line parser.                     *)
(* int64 values are kept bit-exact as four 16-bit limbs (least significant *)
(* first), so that the 0x7FFFFFFF00000000 mask and the wrap-around of      *)
(* ts *= 1000 are the ones of the Go build.                                *)
(***************************************************************************)
EXTENDS Integers, Sequences, FiniteSets, TLC

(***************************************************************************)
(* int64 arithmetic on limbs                                               *)
(***************************************************************************)
Base == 2^16

Zero64 == <<0, 0, 0, 0>>

\* x * k, k a small non-negative integer, wrapped to 64 bits (Go's int64 *).
MulSmall(x, k) ==
  LET p1 == x[1] * k
      p2 == x[2] * k + (p1 \div Base)
      p3 == x[3] * k + (p2 \div Base)
      p4 == x[4] * k + (p3 \div Base)
  IN  <<p1 % Base, p2 % Base, p3 % Base, p4 % Base>>

\* x + a, a a small non-negative integer, wrapped to 64 bits.
AddSmall(x, a) ==
  LET s1 == x[1] + a
      s2 == x[2] + (s1 \div Base)
      s3 == x[3] + (s2 \div Base)
      s4 == x[4] + (s3 \div Base)
  IN  <<s1 % Base, s2 % Base, s3 % Base, s4 % Base>>

\* Two's complement negation.
Neg64(x) == AddSmall([i \in 1..4 |-> (Base - 1) - x[i]], 1)

\* Bit i of a.
Bit(a, i) == (a \div (2 ^ i)) % 2

\* a & b on 16-bit limbs.
BitAnd(a, b) ==
  LET and[i \in 0..16] ==
        IF i = 16 THEN 0 ELSE Bit(a, i) * Bit(b, i) * (2 ^ i) + and[i + 1]
  IN  and[0]

\* Go's x & y on int64.
And64(x, y) == [i \in 1..4 |-> BitAnd(x[i], y[i])]

\* const SECOND_MASK int64 = 0x7FFFFFFF00000000
SECOND_MASK == <<0, 0, 65535, 32767>>

(***************************************************************************)
(* JSON values as fastjson hands them to the parser.  A number keeps its   *)
(* source text: sign, integer digits, fraction digits.                     *)
(***************************************************************************)
Nil == [type |-> "nil"]

JNull == [type |-> "null"]

JStr(s) == [type |-> "string", s |-> s]

JNum(neg, int, frac) == [type |-> "number", neg |-> neg, int |-> int, frac |-> frac]

JObj(kv) == [type |-> "object", kv |-> kv]

JArr(a) == [type |-> "array", a |-> a]

\* fastjson Value.Get(key): the first member with that key, nil if none
\* or if the value is not an object.
Get(o, key) ==
  IF o.type # "object" THEN Nil
  ELSE LET idx == {i \in 1..Len(o.kv) : o.kv[i][1] = key}
       IN  IF idx = {} THEN Nil
           ELSE o.kv[CHOOSE i \in idx : \A j \in idx : i <= j][2]

\* fastjson Value.GetStringBytes(key): nil unless the member is a string.
GetStringBytes(o, key) ==
  LET v == Get(o, key) IN IF v.type = "string" THEN v ELSE Nil

\* fastjson Value.GetObject(key): nil unless the member is an object.
GetObject(o, key) ==
  LET v == Get(o, key) IN IF v.type = "object" THEN v ELSE Nil

RECURSIVE DecToNat(_)
DecToNat(ds) ==
  IF ds = <<>> THEN 0
  ELSE 10 * DecToNat(SubSeq(ds, 1, Len(ds) - 1)) + ds[Len(ds)]

\* The int64 a digit sequence spells, four digits at a time.
RECURSIVE DecTo64(_)
DecTo64(ds) ==
  IF Len(ds) <= 4 THEN <<DecToNat(ds), 0, 0, 0>>
  ELSE AddSmall(MulSmall(DecTo64(SubSeq(ds, 1, Len(ds) - 4)), 10000),
                DecToNat(SubSeq(ds, Len(ds) - 3, Len(ds))))

\* fastjson Value.Int64(): fails unless the value is a number written
\* without a fraction.
Int64Of(v) ==
  IF v.type = "number" /\ v.frac = <<>>
  THEN [ok |-> TRUE, val |-> IF v.neg THEN Neg64(DecTo64(v.int)) ELSE DecTo64(v.int)]
  ELSE [ok |-> FALSE, val |-> Zero64]

\* fastjson Value.Float64(): fails unless the value is a number.
Float64Of(v) ==
  IF v.type = "number"
  THEN [ok |-> TRUE, val |-> [neg |-> v.neg, int |-> v.int, frac |-> v.frac]]
  ELSE [ok |-> FALSE, val |-> [neg |-> FALSE, int |-> <<0>>, frac |-> <<>>]]

\* int64(tsF * 1000): the product truncated toward zero.  The inputs of the
\* model carry fractions that float64 holds exactly, so the float product is
\* the decimal one.
FloatMul1000ToInt64(f) ==
  LET whole == MulSmall(DecTo64(f.int), 1000)
      part  == (DecToNat(f.frac) * 1000) \div (10 ^ Len(f.frac))
      mag   == AddSmall(whole, part)
  IN  IF f.neg THEN Neg64(mag) ELSE mag

(***************************************************************************)
(* package opentsdbhttp: rows parsed from the JSON body                    *)
(***************************************************************************)
NoErr == [kind |-> "nil", field |-> ""]

Errorf(kind, field) == [kind |-> kind, field |-> field]

\* The float64 0.
FloatZero == [neg |-> FALSE, int |-> <<0>>, frac |-> <<>>]

\* Row.reset(): the zero Row.
opentsdbhttp_Row_reset ==
  [Metric |-> "", Tags |-> <<>>, Value |-> FloatZero, Timestamp |-> Zero64]

\* The empty arena: Rows{} and the arena after Rows.Reset().
opentsdbhttp_Rows_Reset == [Rows |-> <<>>, tagsPool |-> <<>>]

\* unmarshalTags: one Tag per member, in order; a member whose value is not
\* a string takes a slot and gives it back.
RECURSIVE opentsdbhttp_unmarshalTags(_, _)
opentsdbhttp_unmarshalTags(dst, kv) ==
  IF kv = <<>> THEN dst
  ELSE LET k == kv[1][1]
           v == kv[1][2]
           grown == Append(dst, [Key |-> "", Value |-> ""])
           next == IF v.type # "string"
                   THEN SubSeq(grown, 1, Len(grown) - 1)
                   ELSE [grown EXCEPT ![Len(grown)] = [Key |-> k, Value |-> v.s]]
       IN  opentsdbhttp_unmarshalTags(next, Tail(kv))

\* A conversion that takes every timestamp for seconds.
SecondsToMillis_Always(ts) == MulSmall(ts, 1000)

\* if ts & SECOND_MASK == 0 { ts *= 1000 }
SecondsToMillis(ts) ==
  IF And64(ts, SECOND_MASK) = Zero64 THEN MulSmall(ts, 1000) ELSE ts

\* The timestamp of a row: Int64() first, Float64() * 1000 when that fails,
\* then the seconds test on whichever integer came out.
opentsdbhttp_timestamp(rawTs) ==
  LET i == Int64Of(rawTs)
      f == Float64Of(rawTs)
  IN  IF i.ok THEN [ok |-> TRUE, ts |-> SecondsToMillis(i.val)]
      ELSE IF ~f.ok THEN [ok |-> FALSE, ts |-> Zero64]
      ELSE [ok |-> TRUE, ts |-> SecondsToMillis(FloatMul1000ToInt64(f.val))]

\* Row.unmarshal(o, tagsPool): the row as it is left in its slot, the tag
\* pool and the error.
opentsdbhttp_Row_unmarshal(o, tagsPool) ==
  LET r0     == opentsdbhttp_Row_reset
      m      == GetStringBytes(o, "metric")
      r1     == [r0 EXCEPT !.Metric = m.s]
      rawTs  == Get(o, "timestamp")
      t      == opentsdbhttp_timestamp(rawTs)
      r2     == [r1 EXCEPT !.Timestamp = t.ts]
      rawV   == Get(o, "value")
      v      == Float64Of(rawV)
      r3     == [r2 EXCEPT !.Value = v.val]
      rawTags == GetObject(o, "tags")
      pool   == opentsdbhttp_unmarshalTags(tagsPool, rawTags.kv)
      r4     == [r3 EXCEPT !.Tags = SubSeq(pool, Len(tagsPool) + 1, Len(pool))]
      fail(r, kind, field) == [row |-> r, tagsPool |-> tagsPool, err |-> Errorf(kind, field)]
  IN  IF m.type = "nil" THEN fail(r0, "missing", "metric")
      ELSE IF rawTs.type = "nil" THEN fail(r1, "missing", "timestamp")
      ELSE IF ~t.ok THEN fail(r1, "invalid", "timestamp")
      ELSE IF rawV.type = "nil" THEN fail(r2, "missing", "value")
      ELSE IF ~v.ok THEN fail(r2, "invalid", "value")
      ELSE IF rawTags.type = "nil" THEN fail(r3, "missing", "tags")
      ELSE [row |-> r4, tagsPool |-> pool, err |-> NoErr]

\* A loop that gives back the slot of the element that failed.
RECURSIVE opentsdbhttp_unmarshalElems_GivesBack(_, _, _)
opentsdbhttp_unmarshalElems_GivesBack(dst, a, tagsPool) ==
  IF a = <<>> THEN [Rows |-> dst, tagsPool |-> tagsPool, err |-> NoErr]
  ELSE LET u == opentsdbhttp_Row_unmarshal(a[1], tagsPool)
       IN  IF u.err # NoErr
           THEN [Rows |-> dst, tagsPool |-> u.tagsPool, err |-> u.err]
           ELSE opentsdbhttp_unmarshalElems_GivesBack(Append(dst, u.row), Tail(a), u.tagsPool)

\* The loop of unmarshalRows over the elements of an array: each element
\* takes a slot of dst before it is parsed, and keeps it on error.
RECURSIVE opentsdbhttp_unmarshalElems(_, _, _)
opentsdbhttp_unmarshalElems(dst, a, tagsPool) ==
  IF a = <<>> THEN [Rows |-> dst, tagsPool |-> tagsPool, err |-> NoErr]
  ELSE LET u == opentsdbhttp_Row_unmarshal(a[1], tagsPool)
       IN  IF u.err # NoErr
           THEN [Rows |-> Append(dst, u.row), tagsPool |-> u.tagsPool, err |-> u.err]
           ELSE opentsdbhttp_unmarshalElems(Append(dst, u.row), Tail(a), u.tagsPool)

\* unmarshalRows(dst, av, tagsPool)
opentsdbhttp_unmarshalRows(dst, av, tagsPool) ==
  IF av.type = "nil"
  THEN [Rows |-> dst, tagsPool |-> tagsPool, err |-> Errorf("empty", "")]
  ELSE IF av.type \in {"object", "array"}
  THEN opentsdbhttp_unmarshalElems(dst, IF av.type = "object" THEN <<av>> ELSE av.a, tagsPool)
  ELSE [Rows |-> dst, tagsPool |-> tagsPool, err |-> Errorf("type", "")]

\* An Unmarshal that parses behind the rows the arena holds.
opentsdbhttp_Rows_Unmarshal_Appending(rs, av) ==
  opentsdbhttp_unmarshalRows(rs.Rows, av, rs.tagsPool)

\* Rows.Unmarshal(av): rs.Rows and rs.tagsPool are assigned whatever
\* unmarshalRows returns, error or not.
opentsdbhttp_Rows_Unmarshal(rs, av) ==
  opentsdbhttp_unmarshalRows(SubSeq(rs.Rows, 1, 0), av, SubSeq(rs.tagsPool, 1, 0))

(***************************************************************************)
(* package opentsdb: rows parsed from telnet "put" lines.  A string is a   *)
(* sequence of one-character strings.                                      *)
(***************************************************************************)
\* strings.IndexByte(s, c): 0-based index of the first c, -1 if none.
IndexByte(s, c) ==
  LET idx == {i \in 1..Len(s) : s[i] = c}
  IN  IF idx = {} THEN -1 ELSE (CHOOSE i \in idx : \A j \in idx : i <= j) - 1

\* strings.HasPrefix(s, prefix)
HasPrefix(s, prefix) ==
  Len(s) >= Len(prefix) /\ SubSeq(s, 1, Len(prefix)) = prefix

\* Go's s[from:], from 0-based.
SliceFrom(s, from) == SubSeq(s, from + 1, Len(s))

\* Go's s[:to], to 0-based and excluded.
SliceTo(s, to) == SubSeq(s, 1, to)

Digits == <<"0", "1", "2", "3", "4", "5", "6", "7", "8", "9">>

IsDigit(c) == \E d \in 1..10 : Digits[d] = c

DigitVal(c) == (CHOOSE d \in 1..10 : Digits[d] = c) - 1

\* fastfloat.ParseBestEffort(s): the decimal number s spells (optional '-',
\* digits, optional '.' and digits), and 0 for any other text.
ParseBestEffort(s) ==
  LET neg  == s # <<>> /\ s[1] = "-"
      body == IF neg THEN Tail(s) ELSE s
      dot  == IndexByte(body, ".")
      ip   == IF dot < 0 THEN body ELSE SliceTo(body, dot)
      fp   == IF dot < 0 THEN <<>> ELSE SliceFrom(body, dot + 1)
      ok   == /\ ip # <<>>
              /\ dot < 0 \/ fp # <<>>
              /\ \A i \in 1..Len(ip) : IsDigit(ip[i])
              /\ \A i \in 1..Len(fp) : IsDigit(fp[i])
  IN  IF ok
      THEN [neg |-> neg, int |-> [i \in 1..Len(ip) |-> DigitVal(ip[i])],
            frac |-> [i \in 1..Len(fp) |-> DigitVal(fp[i])]]
      ELSE FloatZero

\* A conversion of the timestamp that takes it for seconds and stores
\* milliseconds.
Float64ToInt64_Millis(f) ==
  IF f.neg THEN Neg64(MulSmall(DecTo64(f.int), 1000)) ELSE MulSmall(DecTo64(f.int), 1000)

\* int64(f): the float truncated toward zero.
Float64ToInt64(f) ==
  IF f.neg THEN Neg64(DecTo64(f.int)) ELSE DecTo64(f.int)

\* Row.reset(): the zero Row.
opentsdb_Row_reset ==
  [Metric |-> <<>>, Tags |-> <<>>, Value |-> FloatZero, Timestamp |-> Zero64]

\* The empty arena: Rows{} and the arena after Rows.Reset().
opentsdb_Rows_Reset == [Rows |-> <<>>, tagsPool |-> <<>>]

\* Tag.unmarshal(s)
opentsdb_Tag_unmarshal(s) ==
  LET n == IndexByte(s, "=")
  IN  IF n < 0
      THEN [tag |-> [Key |-> <<>>, Value |-> <<>>], err |-> Errorf("tag", "value")]
      ELSE IF SliceTo(s, n) = <<>>
      THEN [tag |-> [Key |-> <<>>, Value |-> <<>>], err |-> Errorf("tag", "key")]
      ELSE [tag |-> [Key |-> SliceTo(s, n), Value |-> SliceFrom(s, n + 1)], err |-> NoErr]

\* unmarshalTags(dst, s): a slot per space-separated segment; the slot of a
\* segment that fails is given back.
RECURSIVE opentsdb_unmarshalTags(_, _)
opentsdb_unmarshalTags(dst, s) ==
  LET n    == IndexByte(s, " ")
      seg  == IF n < 0 THEN s ELSE SliceTo(s, n)
      u    == opentsdb_Tag_unmarshal(seg)
  IN  IF u.err # NoErr THEN [tagsPool |-> dst, err |-> u.err]
      ELSE IF n < 0 THEN [tagsPool |-> Append(dst, u.tag), err |-> NoErr]
      ELSE opentsdb_unmarshalTags(Append(dst, u.tag), SliceFrom(s, n + 1))

\* Row.unmarshal(s, tagsPool): the row as it is left in its slot, the tag
\* pool and the error.
opentsdb_Row_unmarshal(s, tagsPool) ==
  LET r0    == opentsdb_Row_reset
      s1    == SliceFrom(s, 4)
      n1    == IndexByte(s1, " ")
      r1    == [r0 EXCEPT !.Metric = SliceTo(s1, n1)]
      tail1 == SliceFrom(s1, n1 + 1)
      n2    == IndexByte(tail1, " ")
      r2    == [r1 EXCEPT !.Timestamp = Float64ToInt64(ParseBestEffort(SliceTo(tail1, n2)))]
      tail2 == SliceFrom(tail1, n2 + 1)
      n3    == IndexByte(tail2, " ")
      r3    == [r2 EXCEPT !.Value = ParseBestEffort(SliceTo(tail2, n3))]
      t     == opentsdb_unmarshalTags(tagsPool, SliceFrom(tail2, n3 + 1))
      r4    == [r3 EXCEPT !.Tags = SubSeq(t.tagsPool, Len(tagsPool) + 1, Len(t.tagsPool))]
      fail(r, kind, field) == [row |-> r, tagsPool |-> tagsPool, err |-> Errorf(kind, field)]
  IN  IF ~HasPrefix(s, <<"p", "u", "t", " ">>) THEN fail(r0, "prefix", "put")
      ELSE IF n1 < 0 THEN fail(r0, "whitespace", "timestamp")
      ELSE IF n2 < 0 THEN fail(r1, "whitespace", "value")
      ELSE IF n3 < 0 THEN fail(r2, "whitespace", "tags")
      ELSE IF t.err # NoErr THEN [row |-> r3, tagsPool |-> t.tagsPool, err |-> t.err]
      ELSE [row |-> r4, tagsPool |-> t.tagsPool, err |-> NoErr]

\* unmarshalRows(dst, s, tagsPool): empty lines are skipped; every other
\* line takes a slot of dst before it is parsed, and keeps it on error.
RECURSIVE opentsdb_unmarshalRows(_, _, _)
opentsdb_unmarshalRows(dst, s, tagsPool) ==
  IF Len(s) = 0 THEN [Rows |-> dst, tagsPool |-> tagsPool, err |-> NoErr]
  ELSE LET n    == IndexByte(s, "\n")
           line == IF n < 0 THEN s ELSE SliceTo(s, n)
           u    == opentsdb_Row_unmarshal(line, tagsPool)
       IN  IF n = 0 THEN opentsdb_unmarshalRows(dst, SliceFrom(s, 1), tagsPool)
           ELSE IF u.err # NoErr
           THEN [Rows |-> Append(dst, u.row), tagsPool |-> u.tagsPool, err |-> u.err]
           ELSE IF n < 0
           THEN [Rows |-> Append(dst, u.row), tagsPool |-> u.tagsPool, err |-> NoErr]
           ELSE opentsdb_unmarshalRows(Append(dst, u.row), SliceFrom(s, n + 1), u.tagsPool)

\* Rows.Unmarshal(s): rs.Rows and rs.tagsPool are assigned whatever
\* unmarshalRows returns, error or not.
opentsdb_Rows_Unmarshal(rs, s) ==
  opentsdb_unmarshalRows(SubSeq(rs.Rows, 1, 0), s, SubSeq(rs.tagsPool, 1, 0))

(***************************************************************************)
(* Inputs of the parsers                                                   *)
(***************************************************************************)
\* Integer timestamps: 0, 1000000000, 4294967295 (the last value the mask
\* takes for seconds), 4294967296, 1577836800000, -1 and
\* -9223372036854775808 (all mask bits clear, product wraps).
IntTimestamps ==
  { JNum(FALSE, <<0>>, <<>>),
    JNum(FALSE, <<1,0,0,0,0,0,0,0,0,0>>, <<>>),
    JNum(FALSE, <<4,2,9,4,9,6,7,2,9,5>>, <<>>),
    JNum(FALSE, <<4,2,9,4,9,6,7,2,9,6>>, <<>>),
    JNum(FALSE, <<1,5,7,7,8,3,6,8,0,0,0,0,0>>, <<>>),
    JNum(TRUE, <<1>>, <<>>),
    JNum(TRUE, <<9,2,2,3,3,7,2,0,3,6,8,5,4,7,7,5,8,0,8>>, <<>>) }

\* Timestamps with a fraction: 1.5, 0.0625, 4294967.25, 4294967.5,
\* 1577836800.5.
FracTimestamps ==
  { JNum(FALSE, <<1>>, <<5>>),
    JNum(FALSE, <<0>>, <<0,6,2,5>>),
    JNum(FALSE, <<4,2,9,4,9,6,7>>, <<2,5>>),
    JNum(FALSE, <<4,2,9,4,9,6,7>>, <<5>>),
    JNum(FALSE, <<1,5,7,7,8,3,6,8,0,0>>, <<5>>) }

JRow(metric, ts, value, tags) ==
  JObj(<< <<"metric", metric>>, <<"timestamp", ts>>, <<"value", value>>, <<"tags", tags>> >>)

JTags1 == JObj(<< <<"host", JStr("web01")>>, <<"dc", JStr("us")>> >>)

\* One tag whose value is a number: dropped by unmarshalTags.
JTags2 == JObj(<< <<"host", JStr("web01")>>, <<"n", JNum(FALSE, <<7>>, <<>>)>>, <<"dc", JStr("us")>> >>)

JValue1 == JNum(FALSE, <<4,2>>, <<5>>)

JGoodRow == JRow(JStr("sys.cpu"), JNum(FALSE, <<1,0,0,0,0,0,0,0,0,0>>, <<>>), JValue1, JTags1)

JOtherRow == JRow(JStr("sys.mem"), JNum(FALSE, <<1,5,7,7,8,3,6,8,0,0,0,0,0>>, <<>>), JValue1, JTags2)

RowFields == {"metric", "timestamp", "value", "tags"}

\* The object o without its member key.
Without(o, key) == JObj(SelectSeq(o.kv, LAMBDA p : p[1] # key))

\* A row object with every field.
JFullRows ==
  {JRow(JStr("sys.cpu"), t, JValue1, JTags1) : t \in IntTimestamps \cup FracTimestamps}
    \cup {JGoodRow, JOtherRow}

\* Row objects that fail: a field missing, or of the wrong type.
JBadRows ==
  {Without(JGoodRow, k) : k \in RowFields}
    \cup { JRow(JNum(FALSE, <<1>>, <<>>), JNum(FALSE, <<1>>, <<>>), JValue1, JTags1),
           JRow(JStr("sys.cpu"), JStr("now"), JValue1, JTags1),
           JRow(JStr("sys.cpu"), JNull, JValue1, JTags1),
           JRow(JStr("sys.cpu"), JNum(FALSE, <<1>>, <<>>), JStr("x"), JTags1),
           JRow(JStr("sys.cpu"), JNum(FALSE, <<1>>, <<>>), JValue1, JStr("x")) }

\* The documents handed to Rows.Unmarshal: one object, or an array.
JDocs ==
  JFullRows \cup JBadRows
    \cup { JArr(<<>>), JArr(<<JGoodRow>>), JArr(<<JGoodRow, JOtherRow>>),
           JArr(<<JOtherRow, JGoodRow, JGoodRow>>), JNum(FALSE, <<1>>, <<>>), JStr("x") }
    \cup {JArr(<<JGoodRow, Without(JOtherRow, k)>>) : k \in RowFields}
    \cup {JArr(<<JGoodRow, JOtherRow, Without(JGoodRow, k), JGoodRow>>) : k \in RowFields}

\* The text of a digit sequence.
DigitChars(ds) == [i \in 1..Len(ds) |-> Digits[ds[i] + 1]]

\* The text of a decimal number.
FormatFloat(f) ==
  (IF f.neg THEN <<"-">> ELSE <<>>) \o DigitChars(f.int)
    \o (IF f.frac = <<>> THEN <<>> ELSE <<".">> \o DigitChars(f.frac))

\* k1=v1 k2=v2 ... kn=vn
RECURSIVE FormatTags(_)
FormatTags(tags) ==
  IF tags = <<>> THEN <<>>
  ELSE tags[1].Key \o <<"=">> \o tags[1].Value
         \o (IF Len(tags) = 1 THEN <<>> ELSE <<" ">> \o FormatTags(Tail(tags)))

\* put <metric> <timestamp> <value> <k1>=<v1> ... <kn>=<vn>
FormatLine(l) ==
  <<"p", "u", "t", " ">> \o l.metric \o <<" ">> \o DigitChars(l.ts) \o <<" ">>
    \o FormatFloat(l.value) \o <<" ">> \o FormatTags(l.tags)

LTagHost == [Key |-> <<"h", "o", "s", "t">>, Value |-> <<"w", "e", "b", "0", "1">>]

LTagDc == [Key |-> <<"d", "c">>, Value |-> <<"u", "s">>]

\* put sys.cpu 1577836800 42.5 host=web01 dc=us
LExample ==
  [metric |-> <<"s", "y", "s", ".", "c", "p", "u">>, ts |-> <<1,5,7,7,8,3,6,8,0,0>>,
   value |-> [neg |-> FALSE, int |-> <<4,2>>, frac |-> <<5>>], tags |-> <<LTagHost, LTagDc>>]

\* The well-formed lines: a metric, a timestamp in seconds, a value and one
\* or more tags; a tag value may be empty or hold a further '='.
WellFormedLines ==
  [metric : {<<"s", "y", "s", ".", "c", "p", "u">>, <<"m">>},
   ts     : {<<1,5,7,7,8,3,6,8,0,0>>, <<1,5>>, <<0>>},
   value  : {[neg |-> FALSE, int |-> <<4,2>>, frac |-> <<5>>],
             [neg |-> TRUE, int |-> <<1>>, frac |-> <<>>]},
   tags   : {<<LTagHost, LTagDc>>, <<LTagDc>>,
             <<[Key |-> <<"a">>, Value |-> <<>>], [Key |-> <<"b">>, Value |-> <<"c", "=", "d">>]>>}]

\* Lines that fail: no prefix, a separator missing, a tag without '=' or
\* without a key.
MalformedLines ==
  { <<"m", " ", "1", " ", "2", " ", "a", "=", "b">>,
    <<"p", "u", "t", " ", "m">>,
    <<"p", "u", "t", " ", "m", " ", "1">>,
    <<"p", "u", "t", " ", "m", " ", "1", " ", "2">>,
    <<"p", "u", "t", " ", "m", " ", "1", " ", "2", " ", "a", "b">>,
    <<"p", "u", "t", " ", "m", " ", "1", " ", "2", " ", "a", "=", "b", " ", "=", "c">> }

\* Well-formed in shape, with text where the numbers should be.
GarbageLine == <<"p", "u", "t", " ", "m", " ", "x", " ", "1", "y", " ", "a", "=", "b">>

LSecond == [LExample EXCEPT !.metric = <<"m">>, !.ts = <<1,5>>, !.tags = <<LTagDc>>]

\* The lines put together two by two.
PairLines ==
  { FormatLine(LExample), FormatLine(LSecond),
    <<"p", "u", "t", " ", "m", " ", "1", " ", "2">> }

\* The sources handed to Rows.Unmarshal: one line, with or without its
\* newline, two or three lines, empty lines between them.
LSources ==
  {FormatLine(l) : l \in WellFormedLines}
    \cup {FormatLine(l) \o <<"\n">> : l \in WellFormedLines}
    \cup MalformedLines \cup {GarbageLine, <<>>, <<"\n">>}
    \cup {a \o <<"\n">> \o b : a \in PairLines, b \in PairLines}
    \cup {a \o <<"\n", "\n">> \o b \o <<"\n">> : a \in PairLines, b \in PairLines}


(***************************************************************************)
(* package opentsdbhttp: the request pipeline                              *)
(***************************************************************************)
\* The number of concurrent requests of the model.
NumWorkers == 2

Workers == 1..NumWorkers

\* The most slots the concurrency limiter is started with.
ConcurrencyLimit == 2

\* cap(pushCtxPoolCh), runtime.GOMAXPROCS(-1) in the build.
PoolChCap == 1

\* The pushCtx objects that exist at one time.
MaxCtx == 2

CtxIds == 1..MaxCtx

\* maxSize, in bytes (-maxInsertRequestSize).
MaxSize == 2

\* The data points one request may write before the model stops following it.
MaxWrites == 2

Malformed == [type |-> "malformed"]

\* io.EOF
EOF == Errorf("EOF", "")

\* The request bodies: size in bytes, the document the bytes spell, and
\* failAt, the number of bytes delivered before the transport fails, -1 if
\* it does not.
GoodBody == [size |-> MaxSize, doc |-> JGoodRow, failAt |-> -1]

PartialBody ==
  [size |-> MaxSize, doc |-> JArr(<<JGoodRow, Without(JOtherRow, "value")>>), failAt |-> -1]

MalformedBody == [size |-> MaxSize, doc |-> Malformed, failAt |-> -1]

TooBigBody == [size |-> MaxSize + 1, doc |-> JGoodRow, failAt |-> -1]

BrokenBody == [size |-> MaxSize, doc |-> JGoodRow, failAt |-> 1]

Bodies == {GoodBody, PartialBody, MalformedBody, TooBigBody, BrokenBody}

\* The Content-Encoding of a request; "badgzip" is a body that is announced
\* as gzip and is not.
Encodings == {"identity", "badgzip"}

\* A request of which nothing has been read: no header, no body.
NoRequest == [body |-> Nil, encoding |-> "none"]

EmptyBuf == [n |-> 0, src |-> Nil]

\* &pushCtx{}
ZeroCtx ==
  [Rows |-> <<>>, tagsPool |-> <<>>, reqBuf |-> EmptyBuf, parser |-> "new", err |-> NoErr]

\* The state pushCtx.reset() leaves: no rows, no tags, an empty buffer, no
\* error.  The fastjson parser is not part of it.
Cleared(c) ==
  /\ c.Rows = <<>>
  /\ c.tagsPool = <<>>
  /\ c.reqBuf = EmptyBuf
  /\ c.err = NoErr

\* A reset that forgets the stored error and the read buffer.
pushCtx_reset_RowsOnly(c) ==
  [c EXCEPT !.Rows = opentsdbhttp_Rows_Reset.Rows,
            !.tagsPool = opentsdbhttp_Rows_Reset.tagsPool]

\* pushCtx.reset()
pushCtx_reset(c) ==
  [c EXCEPT !.Rows = opentsdbhttp_Rows_Reset.Rows,
            !.tagsPool = opentsdbhttp_Rows_Reset.tagsPool,
            !.reqBuf = EmptyBuf,
            !.err = NoErr]

Min(a, b) == IF a <= b THEN a ELSE b

\* ByteBuffer.ReadFrom(io.LimitReader(r, limit)): reads r to its end, to
\* the limit or to a failure, appends what it read to the buffer, and
\* reports the bytes read; the end of the input is not an error.
ReadFrom(buf, body, pos, limit) ==
  LET want  == Min(body.size - pos, limit)
      fails == body.failAt >= pos /\ body.failAt < pos + want
      n     == IF fails THEN body.failAt - pos ELSE want
  IN  [buf |-> [n |-> buf.n + n, src |-> body], n |-> n, pos |-> pos + n, err |-> fails]

\* fastjson Parser.ParseBytes(b): the document the bytes spell, or an error
\* (the empty input is an error).
ParseBytes(buf) ==
  IF buf.n > 0 /\ buf.n = buf.src.size /\ buf.src.doc # Malformed
  THEN [ok |-> TRUE, v |-> buf.src.doc]
  ELSE [ok |-> FALSE, v |-> Nil]

\* A Read that records the error of Unmarshal and still reports rows to
\* insert.
pushCtx_Unmarshalled_ReportsRows(c, u, pos) ==
  LET c3 == [c EXCEPT !.Rows = u.Rows, !.tagsPool = u.tagsPool]
  IN  IF u.err # NoErr
      THEN [ctx |-> [c3 EXCEPT !.err = Errorf("unmarshal", u.err.field)], pos |-> pos, ok |-> TRUE]
      ELSE [ctx |-> c3, pos |-> pos, ok |-> TRUE]

\* pushCtx.Read, from ctx.Rows.Unmarshal(v) on: the rows are stored in the
\* context whether or not the call failed.
pushCtx_Unmarshalled(c, u, pos) ==
  LET c3 == [c EXCEPT !.Rows = u.Rows, !.tagsPool = u.tagsPool]
  IN  IF u.err # NoErr
      THEN [ctx |-> [c3 EXCEPT !.err = Errorf("unmarshal", u.err.field)], pos |-> pos, ok |-> FALSE]
      ELSE [ctx |-> c3, pos |-> pos, ok |-> TRUE]

\* The documents the bodies spell.
BodyDocs == {b.doc : b \in Bodies} \ {Malformed}

\* opentsdbhttp_Rows_Unmarshal on the arenas a context can hold when Read is
\* called (the empty one, and the ones the earlier Reads of the same request
\* left) and on the documents of the bodies, computed once: the results on
\* the arenas of seen, for n more Reads or until no new arena comes out.
RECURSIVE UnmarshalClosure(_, _)
UnmarshalClosure(seen, n) ==
  LET arenas == {opentsdbhttp_Rows_Reset}
                  \cup {[Rows |-> t.u.Rows, tagsPool |-> t.u.tagsPool] : t \in seen}
      next   == {[rs |-> rs, av |-> d, u |-> opentsdbhttp_Rows_Unmarshal(rs, d)] :
                   rs \in arenas, d \in BodyDocs}
  IN  IF n = 0 \/ next = seen THEN seen ELSE UnmarshalClosure(next, n - 1)

\* A request makes at most MaxWrites + 1 Reads.
UnmarshalResults == UnmarshalClosure({}, MaxWrites + 1)

\* ctx.Rows.Unmarshal(v)
ctx_Rows_Unmarshal(rs, av) ==
  (CHOOSE t \in UnmarshalResults : t.rs = rs /\ t.av = av).u

\* pushCtx.Read(r, maxSize): the context, the position of the reader and
\* the result.
pushCtx_Read(c, body, pos) ==
  LET r  == ReadFrom(c.reqBuf, body, pos, MaxSize + 1)
      c1 == [c EXCEPT !.reqBuf = r.buf]
      p  == ParseBytes(r.buf)
      c2 == [c1 EXCEPT !.parser = "used"]
  IN  IF c.err # NoErr THEN [ctx |-> c, pos |-> pos, ok |-> FALSE]
      ELSE IF r.err
      THEN [ctx |-> [c1 EXCEPT !.err = Errorf("read", "")], pos |-> r.pos, ok |-> FALSE]
      ELSE IF r.n > MaxSize
      THEN [ctx |-> [c1 EXCEPT !.err = Errorf("toobig", "")], pos |-> r.pos, ok |-> FALSE]
      ELSE IF ~p.ok
      THEN [ctx |-> [c2 EXCEPT !.err = Errorf("json", "")], pos |-> r.pos, ok |-> FALSE]
      ELSE pushCtx_Unmarshalled(
             c2, ctx_Rows_Unmarshal([Rows |-> c.Rows, tagsPool |-> c.tagsPool], p.v), r.pos)

\* pushCtx.Error()
pushCtx_Error(c) == IF c.err = EOF THEN NoErr ELSE c.err

(***************************************************************************)
(* State                                                                   *)
(***************************************************************************)
VARIABLES
  jrs,      \* opentsdbhttp: a Rows arena
  jsrc,     \* the value of the last Unmarshal call on jrs, Nil before any
  jerr,     \* the error that call returned
  jbefore,  \* len(jrs.Rows) when that call was made
  lrs,      \* opentsdb: a Rows arena
  lsrc,     \* the text of the last Unmarshal call on lrs
  lcalled,  \* whether Unmarshal was called on lrs since its last Reset
  lerr,     \* the error that call returned
  lbefore,  \* len(lrs.Rows) when that call was made
  pc,            \* where each request stands in InsertHandler
  req,           \* the request of each worker
  rd,            \* the bytes of req.Body already read
  held,          \* the pushCtx of each worker, 0 if none
  ctxs,          \* the pushCtx objects
  pushCtxPoolCh, \* the channel of idle contexts
  pushCtxPool,   \* the sync.Pool of idle contexts
  slots,         \* the slots concurrencylimiter.Init() made
  ch,            \* the slots of the concurrency limiter in use
  written,       \* the data points each request has written downstream
  ret            \* the error InsertHandler returns

parserVars == <<jrs, jsrc, jerr, jbefore, lrs, lsrc, lcalled, lerr, lbefore>>

pipeVars == <<pc, req, rd, held, ctxs, pushCtxPoolCh, pushCtxPool, slots, ch, written, ret>>

vars == <<parserVars, pipeVars>>

ParserInit ==
  /\ jrs = opentsdbhttp_Rows_Reset
  /\ jsrc = Nil
  /\ jerr = NoErr
  /\ jbefore = 0
  /\ lrs = opentsdb_Rows_Reset
  /\ lsrc = <<>>
  /\ lcalled = FALSE
  /\ lerr = NoErr
  /\ lbefore = 0

PipeInit ==
  /\ pc = [w \in Workers |-> "idle"]
  /\ req = [w \in Workers |-> NoRequest]
  /\ rd = [w \in Workers |-> 0]
  /\ held = [w \in Workers |-> 0]
  /\ ctxs = [c \in CtxIds |-> ZeroCtx]
  /\ pushCtxPoolCh = <<>>
  /\ pushCtxPool = {}
  /\ slots \in 1..ConcurrencyLimit
  /\ ch = 0
  /\ written = [w \in Workers |-> 0]
  /\ ret = [w \in Workers |-> NoErr]

Init == ParserInit /\ PipeInit

\* rs.Unmarshal(av) on the JSON arena
JSONUnmarshal(av) ==
  LET u == opentsdbhttp_Rows_Unmarshal(jrs, av)
  IN  /\ jrs' = [Rows |-> u.Rows, tagsPool |-> u.tagsPool]
      /\ jsrc' = av
      /\ jerr' = u.err
      /\ jbefore' = Len(jrs.Rows)
      /\ UNCHANGED <<lrs, lsrc, lcalled, lerr, lbefore>>
      /\ UNCHANGED pipeVars

\* rs.Reset() on the JSON arena
JSONReset ==
  /\ jrs' = opentsdbhttp_Rows_Reset
  /\ jsrc' = Nil
  /\ jerr' = NoErr
  /\ jbefore' = 0
  /\ UNCHANGED <<lrs, lsrc, lcalled, lerr, lbefore>>
  /\ UNCHANGED pipeVars

\* rs.Unmarshal(s) on the line arena
LineUnmarshal(s) ==
  LET u == opentsdb_Rows_Unmarshal(lrs, s)
  IN  /\ lrs' = [Rows |-> u.Rows, tagsPool |-> u.tagsPool]
      /\ lsrc' = s
      /\ lcalled' = TRUE
      /\ lerr' = u.err
      /\ lbefore' = Len(lrs.Rows)
      /\ UNCHANGED <<jrs, jsrc, jerr, jbefore>>
      /\ UNCHANGED pipeVars

\* rs.Reset() on the line arena
LineReset ==
  /\ lrs' = opentsdb_Rows_Reset
  /\ lsrc' = <<>>
  /\ lcalled' = FALSE
  /\ lerr' = NoErr
  /\ lbefore' = 0
  /\ UNCHANGED <<jrs, jsrc, jerr, jbefore>>
  /\ UNCHANGED pipeVars

NextJSON ==
  \/ \E av \in JDocs : JSONUnmarshal(av)
  \/ JSONReset

NextLine ==
  \/ \E s \in LSources : LineUnmarshal(s)
  \/ LineReset

SpecJSON == Init /\ [][NextJSON]_vars

SpecLine == Init /\ [][NextLine]_vars

\* Both arenas side by side, on documents and texts of zero to three rows.
JArenaDocs ==
  { JGoodRow, JArr(<<>>), JArr(<<JGoodRow, JOtherRow>>),
    JArr(<<JOtherRow, JGoodRow, JGoodRow>>), JArr(<<JGoodRow, Without(JOtherRow, "value")>>) }

LArenaSources ==
  { FormatLine(LExample), <<"\n">>,
    FormatLine(LExample) \o <<"\n">> \o FormatLine(LSecond) \o <<"\n">>,
    FormatLine(LSecond) \o <<"\n", "\n">> \o FormatLine(LExample) \o <<"\n">> \o FormatLine(LExample),
    FormatLine(LExample) \o <<"\n">> \o <<"p", "u", "t", " ", "m", " ", "1", " ", "2">> }

NextParsers ==
  \/ \E av \in JArenaDocs : JSONUnmarshal(av)
  \/ JSONReset
  \/ \E s \in LArenaSources : LineUnmarshal(s)
  \/ LineReset

SpecParsers == Init /\ [][NextParsers]_vars


(***************************************************************************)
(* The requests                                                            *)
(***************************************************************************)
\* The contexts that no request holds and no pool keeps: not allocated, or
\* dropped by the garbage collector.
FreeIds ==
  {c \in CtxIds :
     /\ \A w \in Workers : held[w] # c
     /\ \A i \in 1..Len(pushCtxPoolCh) : pushCtxPoolCh[i] # c
     /\ c \notin pushCtxPool}

\* An InsertHandler that calls insertHandlerInternal itself, without the
\* concurrency limiter.
InsertHandler_Unlimited(w) ==
  /\ pc[w] = "idle"
  /\ pc' = [pc EXCEPT ![w] = "start"]
  /\ UNCHANGED <<req, rd, held, ctxs, pushCtxPoolCh, pushCtxPool, slots, ch, written, ret>>
  /\ UNCHANGED parserVars

\* RequestHandler, case "/api/put": opentsdbhttp.InsertHandler(r, maxSize)
\* is called, and hands insertHandlerInternal to concurrencylimiter.Do.
InsertHandler(w) ==
  /\ pc[w] = "idle"
  /\ pc' = [pc EXCEPT ![w] = "wait"]
  /\ UNCHANGED <<req, rd, held, ctxs, pushCtxPoolCh, pushCtxPool, slots, ch, written, ret>>
  /\ UNCHANGED parserVars

\* concurrencylimiter.Do: a slot is free and the request takes it.
DoAcquire(w) ==
  /\ pc[w] = "wait"
  /\ ch < slots
  /\ ch' = ch + 1
  /\ UNCHANGED slots
  /\ pc' = [pc EXCEPT ![w] = "start"]
  /\ UNCHANGED <<req, rd, held, ctxs, pushCtxPoolCh, pushCtxPool, written, ret>>
  /\ UNCHANGED parserVars

\* concurrencylimiter.Do: the wait for a slot is cancelled; the request
\* ends with an error and has taken nothing.
DoCancel(w) ==
  /\ pc[w] = "wait"
  /\ pc' = [pc EXCEPT ![w] = "idle"]
  /\ UNCHANGED <<req, rd, held, ctxs, pushCtxPoolCh, pushCtxPool, slots, ch, written, ret>>
  /\ UNCHANGED parserVars

\* A getPushCtx that reads the channel and the pool without taking the
\* context out of them.
getPushCtx_Peek(w) ==
  IF pushCtxPoolCh # <<>>
  THEN /\ held' = [held EXCEPT ![w] = Head(pushCtxPoolCh)]
       /\ UNCHANGED <<pushCtxPoolCh, pushCtxPool, ctxs>>
  ELSE \/ \E c \in pushCtxPool :
            /\ held' = [held EXCEPT ![w] = c]
            /\ UNCHANGED <<pushCtxPoolCh, pushCtxPool, ctxs>>
       \/ /\ FreeIds # {}
          /\ LET c == CHOOSE x \in FreeIds : \A y \in FreeIds : x <= y
             IN  /\ held' = [held EXCEPT ![w] = c]
                 /\ ctxs' = [ctxs EXCEPT ![c] = ZeroCtx]
          /\ UNCHANGED <<pushCtxPoolCh, pushCtxPool>>

\* getPushCtx(): a context of the channel if it has one, else one of the
\* sync.Pool, else a new one.  sync.Pool.Get may return nil whatever the
\* pool holds.
getPushCtx(w) ==
  IF pushCtxPoolCh # <<>>
  THEN /\ held' = [held EXCEPT ![w] = Head(pushCtxPoolCh)]
       /\ pushCtxPoolCh' = Tail(pushCtxPoolCh)
       /\ UNCHANGED <<pushCtxPool, ctxs>>
  ELSE \/ \E c \in pushCtxPool :
            /\ held' = [held EXCEPT ![w] = c]
            /\ pushCtxPool' = pushCtxPool \ {c}
            /\ UNCHANGED <<pushCtxPoolCh, ctxs>>
       \/ /\ FreeIds # {}
          /\ LET c == CHOOSE x \in FreeIds : \A y \in FreeIds : x <= y
             IN  /\ held' = [held EXCEPT ![w] = c]
                 /\ ctxs' = [ctxs EXCEPT ![c] = ZeroCtx]
          /\ UNCHANGED <<pushCtxPoolCh, pushCtxPool>>

\* insertHandlerInternal up to its loop: the gzip reader, which fails on a
\* body that is not gzip, then getPushCtx.
insertHandlerInternal(w) ==
  /\ pc[w] = "start"
  /\ \E enc \in Encodings :
       /\ req' = [req EXCEPT ![w].encoding = enc]
       /\ IF enc = "badgzip"
          THEN /\ ret' = [ret EXCEPT ![w] = Errorf("gzip", "")]
               /\ pc' = [pc EXCEPT ![w] = "release"]
               /\ UNCHANGED <<held, ctxs, pushCtxPoolCh, pushCtxPool>>
          ELSE /\ getPushCtx(w)
               /\ pc' = [pc EXCEPT ![w] = "read"]
               /\ UNCHANGED ret
  /\ UNCHANGED <<rd, slots, ch, written>>
  /\ UNCHANGED parserVars

\* for ctx.Read(r, maxSize) { ... }; return ctx.Error().  The body is
\* whatever the reader of the request delivers: it is fixed by the first
\* Read.
Read(w) ==
  /\ pc[w] = "read"
  /\ \E b \in (IF req[w].body = Nil THEN Bodies ELSE {req[w].body}) :
       \E r \in {pushCtx_Read(ctxs[held[w]], b, rd[w])} :
           /\ req' = [req EXCEPT ![w].body = b]
           /\ ctxs' = [ctxs EXCEPT ![held[w]] = r.ctx]
           /\ rd' = [rd EXCEPT ![w] = r.pos]
           /\ IF r.ok
              THEN /\ pc' = [pc EXCEPT ![w] = "insert"]
                   /\ UNCHANGED ret
              ELSE /\ pc' = [pc EXCEPT ![w] = "put"]
                   /\ ret' = [ret EXCEPT ![w] = pushCtx_Error(r.ctx)]
  /\ UNCHANGED <<held, pushCtxPoolCh, pushCtxPool, slots, ch, written>>
  /\ UNCHANGED parserVars

\* ctx.InsertRows(): one WriteDataPoint per row of ctx.Rows, then
\* FlushBufs, whose error ends the request.
InsertRows(w) ==
  /\ pc[w] = "insert"
  /\ written[w] + Len(ctxs[held[w]].Rows) <= MaxWrites
  /\ written' = [written EXCEPT ![w] = @ + Len(ctxs[held[w]].Rows)]
  /\ \/ /\ pc' = [pc EXCEPT ![w] = "read"]
        /\ UNCHANGED ret
     \/ /\ pc' = [pc EXCEPT ![w] = "put"]
        /\ ret' = [ret EXCEPT ![w] = Errorf("flush", "")]
  /\ UNCHANGED <<req, rd, held, ctxs, pushCtxPoolCh, pushCtxPool, slots, ch>>
  /\ UNCHANGED parserVars

\* defer putPushCtx(ctx): reset, then the channel if it has room, else the
\* sync.Pool.
putPushCtx(w) ==
  /\ pc[w] = "put"
  /\ ctxs' = [ctxs EXCEPT ![held[w]] = pushCtx_reset(@)]
  /\ IF Len(pushCtxPoolCh) < PoolChCap
     THEN /\ pushCtxPoolCh' = Append(pushCtxPoolCh, held[w])
          /\ UNCHANGED pushCtxPool
     ELSE /\ pushCtxPool' = pushCtxPool \cup {held[w]}
          /\ UNCHANGED pushCtxPoolCh
  /\ held' = [held EXCEPT ![w] = 0]
  /\ pc' = [pc EXCEPT ![w] = "release"]
  /\ UNCHANGED <<req, rd, slots, ch, written, ret>>
  /\ UNCHANGED parserVars

\* concurrencylimiter.Do: insertHandlerInternal has returned; the slot is
\* given back, its error is returned to RequestHandler, which answers, and
\* the worker is ready for another request.
DoRelease(w) ==
  /\ pc[w] = "release"
  /\ ch' = ch - 1
  /\ UNCHANGED slots
  /\ pc' = [pc EXCEPT ![w] = "idle"]
  /\ req' = [req EXCEPT ![w] = NoRequest]
  /\ rd' = [rd EXCEPT ![w] = 0]
  /\ written' = [written EXCEPT ![w] = 0]
  /\ ret' = [ret EXCEPT ![w] = NoErr]
  /\ UNCHANGED <<held, ctxs, pushCtxPoolCh, pushCtxPool>>
  /\ UNCHANGED parserVars

\* The garbage collector empties a slot of the sync.Pool.
PoolGC ==
  /\ \E c \in pushCtxPool :
       /\ pushCtxPool' = pushCtxPool \ {c}
       /\ ctxs' = [ctxs EXCEPT ![c] = ZeroCtx]
  /\ UNCHANGED <<pc, req, rd, held, pushCtxPoolCh, slots, ch, written, ret>>
  /\ UNCHANGED parserVars

Next ==
  \/ \E w \in Workers : InsertHandler(w)
  \/ \E w \in Workers : DoAcquire(w)
  \/ \E w \in Workers : DoCancel(w)
  \/ \E w \in Workers : insertHandlerInternal(w)
  \/ \E w \in Workers : Read(w)
  \/ \E w \in Workers : InsertRows(w)
  \/ \E w \in Workers : putPushCtx(w)
  \/ \E w \in Workers : DoRelease(w)
  \/ PoolGC

Spec == Init /\ [][Next]_vars

(***************************************************************************)
(* Properties of the parsers                                               *)
(***************************************************************************)
\* The row objects of a document: the object itself, or the elements of
\* the array.
Elems(av) == IF av.type = "array" THEN av.a ELSE <<av>>

\* Row i of the JSON arena was parsed to its end.
JRowDone(i) == i <= Len(jrs.Rows) /\ (jerr = NoErr \/ i < Len(jrs.Rows))

\* C5: a row whose timestamp is the integer t is stored with t * 1000 when
\* t & 0x7FFFFFFF00000000 is 0 and with t otherwise; the product is the
\* int64 one (it wraps for t = -9223372036854775808, the one input here
\* with the sign bit set and the mask bits clear).
C5_IntegerTimestamp ==
  jsrc # Nil =>
    \A i \in 1..Len(jrs.Rows) :
      LET t == Int64Of(Get(Elems(jsrc)[i], "timestamp"))
      IN  (JRowDone(i) /\ t.ok) =>
            jrs.Rows[i].Timestamp =
              IF And64(t.val, <<0, 0, 65535, 32767>>) = Zero64
              THEN MulSmall(t.val, 1000) ELSE t.val

\* 1000000000 is stored as 1000000000000, and 1577836800000 as itself.
C5_Witness ==
  /\ jsrc = JArr(<<JGoodRow, JOtherRow>>)
  /\ jerr = NoErr
  /\ jrs.Rows[1].Timestamp = <<4096, 54437, 232, 0>>
  /\ jrs.Rows[2].Timestamp = <<59392, 24166, 367, 0>>

\* C6: a row whose timestamp has a fraction f is stored with f * 1000
\* truncated, and not multiplied by 1000 a second time.
C6_FractionalTimestamp ==
  jsrc # Nil =>
    \A i \in 1..Len(jrs.Rows) :
      LET raw == Get(Elems(jsrc)[i], "timestamp")
      IN  (JRowDone(i) /\ raw.type = "number" /\ raw.frac # <<>>) =>
            jrs.Rows[i].Timestamp = FloatMul1000ToInt64(Float64Of(raw).val)

\* The elements before element i have every field, and element i lacks
\* field k and nothing else.
FirstFailureIsMissing(av, i, k) ==
  /\ i \in 1..Len(Elems(av))
  /\ \A j \in 1..(i - 1) : Elems(av)[j] \in JFullRows
  /\ \E g \in JFullRows : Elems(av)[i] = Without(g, k)

\* C8 as stated: the error names the missing field and the failed row takes
\* no slot of Rows.Rows.
C8_FailedRowTakesNoSlot ==
  jsrc # Nil =>
    \A i \in 1..4, k \in RowFields :
      FirstFailureIsMissing(jsrc, i, k) =>
        /\ jerr = Errorf("missing", k)
        /\ Len(jrs.Rows) = i - 1

\* C8, amended: the error names the missing field, and the failed row keeps
\* the slot it was given: Rows.Rows holds the rows before it and the failed
\* row, i rows in all.
C8_FailedRowKeepsSlot ==
  jsrc # Nil =>
    \A i \in 1..4, k \in RowFields :
      FirstFailureIsMissing(jsrc, i, k) =>
        /\ jerr = Errorf("missing", k)
        /\ Len(jrs.Rows) = i
        /\ \A j \in 1..(i - 1) : jrs.Rows[j].Metric = Get(Elems(jsrc)[j], "metric").s

C8_Witness ==
  /\ jsrc = JArr(<<JGoodRow, JOtherRow, Without(JGoodRow, "value"), JGoodRow>>)
  /\ jerr = Errorf("missing", "value")
  /\ Len(jrs.Rows) = 3

\* The row a well-formed line stands for, its timestamp as written.
ExpectedRow(l) ==
  [Metric |-> l.metric, Tags |-> l.tags, Value |-> l.value, Timestamp |-> DecTo64(l.ts)]

\* Texts made of well-formed lines only, with the lines they are made of.
WellFormedCases ==
  {[src |-> FormatLine(l), lines |-> <<l>>] : l \in WellFormedLines}
    \cup {[src |-> FormatLine(l) \o <<"\n">>, lines |-> <<l>>] : l \in WellFormedLines}
    \cup {[src |-> FormatLine(a) \o <<"\n">> \o FormatLine(b), lines |-> <<a, b>>] :
            a \in {LExample, LSecond}, b \in {LExample, LSecond}}
    \cup {[src |-> FormatLine(a) \o <<"\n", "\n">> \o FormatLine(b) \o <<"\n">>, lines |-> <<a, b>>] :
            a \in {LExample, LSecond}, b \in {LExample, LSecond}}

RECURSIVE CountLines(_)
CountLines(s) ==
  IF s = <<>> THEN 0
  ELSE LET n == IndexByte(s, "\n")
       IN  IF n = 0 THEN CountLines(Tail(s))
           ELSE IF n < 0 THEN 1
           ELSE 1 + CountLines(SliceFrom(s, n + 1))

\* C9 as stated: a successful Unmarshal on an arena of k rows leaves k + m
\* rows, m the rows of the new source.
C9_UnmarshalAppends ==
  /\ (jsrc # Nil /\ jerr = NoErr) => Len(jrs.Rows) = jbefore + Len(Elems(jsrc))
  /\ (lcalled /\ lerr = NoErr) => Len(lrs.Rows) = lbefore + CountLines(lsrc)

\* C9, amended: a successful Unmarshal replaces the content of the arena:
\* whatever it held, it holds afterwards the m rows of the new source and
\* nothing else.
C9_UnmarshalReplaces ==
  /\ (jsrc # Nil /\ jerr = NoErr) =>
       /\ Len(jrs.Rows) = Len(Elems(jsrc))
       /\ \A i \in 1..Len(jrs.Rows) : jrs.Rows[i].Metric = Get(Elems(jsrc)[i], "metric").s
  /\ (lcalled /\ lerr = NoErr) =>
       /\ Len(lrs.Rows) = CountLines(lsrc)
       /\ \A c \in WellFormedCases :
            lsrc = c.src => lrs.Rows = [i \in 1..Len(c.lines) |-> ExpectedRow(c.lines[i])]

\* Both arenas held three rows when they were given a source of one row.
C9_Witness ==
  /\ jsrc = JGoodRow /\ jerr = NoErr /\ jbefore = 3 /\ Len(jrs.Rows) = 1
  /\ lcalled /\ lsrc = FormatLine(LExample) /\ lerr = NoErr /\ lbefore = 3 /\ Len(lrs.Rows) = 1

(***************************************************************************)
(* Properties of the request pipeline                                      *)
(***************************************************************************)
\* The requests that are inside concurrencylimiter.Do's callback, slot in
\* hand.
Inside == {w \in Workers : pc[w] \in {"start", "read", "insert", "put", "release"}}

\* A body that is well-formed JSON of at most maxSize bytes, delivered
\* without a transport failure.
WellFormedBody(b) ==
  b # Nil /\ b.size <= MaxSize /\ b.doc # Malformed /\ b.failAt < 0
    /\ opentsdbhttp_unmarshalRows(<<>>, b.doc, <<>>).err = NoErr

\* The contexts that wait in the channel or in the sync.Pool.
IdleCtxs == {pushCtxPoolCh[i] : i \in 1..Len(pushCtxPoolCh)} \cup pushCtxPool

\* The kinds of error pushCtx.Read stores.
ReadFailures == {"read", "toobig", "json", "unmarshal"}

\* C1: when the reader of a well-formed request of at most maxSize bytes
\* is at end-of-input, the Read that meets it ends the loop, and the handler
\* returns no error.
C1_EndOfInputEndsLoop ==
  [][\A w \in Workers :
       (/\ pc[w] = "read"
        /\ WellFormedBody(req[w].body)
        /\ rd[w] = req[w].body.size
        /\ pc'[w] # "read")
       => (pc'[w] = "put" /\ ret'[w] = NoErr)]_vars

\* C2: a request whose Read failed (read error, size error, malformed JSON,
\* a row that fails to unmarshal) returns that error and has written no data
\* point, whatever the arena holds.
C2_FailedReadInsertsNothing ==
  \A w \in Workers :
    /\ (held[w] # 0 /\ ctxs[held[w]].err # NoErr)
         => (pc[w] = "put" /\ ret[w] = ctxs[held[w]].err
               /\ ret[w].kind \in ReadFailures /\ written[w] = 0)
    /\ (pc[w] = "release" /\ ret[w].kind \in ReadFailures) => written[w] = 0

\* A request that failed on its second row, the first one parsed and in the
\* arena, about to return the error.
C2_Witness ==
  \E w \in Workers :
    /\ pc[w] = "put"
    /\ ret[w] = Errorf("unmarshal", "value")
    /\ Len(ctxs[held[w]].Rows) = 2
    /\ written[w] = 0

\* C3: no pushCtx is held by two requests, and a held pushCtx is neither in
\* the channel nor in the sync.Pool, so it cannot be handed out again before
\* putPushCtx.
C3_NoSharedContext ==
  /\ \A v, w \in Workers : (v # w /\ held[v] # 0) => held[v] # held[w]
  /\ \A w \in Workers : held[w] # 0 => held[w] \notin IdleCtxs
  /\ \A i, j \in 1..Len(pushCtxPoolCh) : i # j => pushCtxPoolCh[i] # pushCtxPoolCh[j]
  /\ \A i \in 1..Len(pushCtxPoolCh) : pushCtxPoolCh[i] \notin pushCtxPool

\* Every request holds a context an earlier request has used, one of them
\* in the middle of its loop.
C3_Witness ==
  /\ \A w \in Workers : held[w] # 0 /\ ctxs[held[w]].parser = "used"
  /\ \E w \in Workers : pc[w] = "insert" /\ Len(ctxs[held[w]].Rows) = 1

C10_ContextsAreCleared ==
  /\ \A w \in Workers :
       (pc[w] = "read" /\ req[w].body = Nil) => (held[w] # 0 /\ Cleared(ctxs[held[w]]))
  /\ \A c \in IdleCtxs : Cleared(ctxs[c])
  /\ \A w \in Workers : pc[w] \in {"idle", "wait", "start", "release"} => held[w] = 0

\* A request that has just been handed a context an earlier request used,
\* while another request has returned a failure.
C10_Witness ==
  \E v, w \in Workers :
    /\ pc[w] = "read" /\ req[w].body = Nil /\ ctxs[held[w]].parser = "used"
    /\ pc[v] = "release" /\ ret[v].kind \in ReadFailures

====
